---- MODULE Spec2Model ----
(***************************************************************************)
(* A model of py-serializable (src/serializable/__init__.py): the metadata *)
(* registry ObjectMetadataLibrary, the injected codecs (_as_json,          *)
(* DefaultJsonEncoder.default, _from_json, _as_xml) and the class-based    *)
(* codecs (JsonSerializableObject.from_json, XmlSerializableObject.as_xml  *)
(* and from_xml).                                                          *)
(***************************************************************************)
EXTENDS Integers, Sequences, FiniteSets, TLC

(***************************************************************************)
(* Python values.  Every value is a record tagged by t; a scalar carries   *)
(* its text s (an int its decimal digits, a bool "True"/"False").          *)
(***************************************************************************)
None == [t |-> "none"]
PyInt(s) == [t |-> "int", s |-> s]
PyStr(s) == [t |-> "str", s |-> s]
PyBool(b) == [t |-> "bool", s |-> IF b THEN "True" ELSE "False"]
PyEnum(c, s) == [t |-> "enum", cls |-> c, s |-> s]
PyList(items) == [t |-> "list", items |-> items]
PyObj(c, f) == [t |-> "obj", cls |-> c, f |-> f]
PyDict(kv) == [t |-> "dict", kv |-> kv]
PyErr(e) == [t |-> "error", err |-> e]

IsErr(v) == v.t = "error"
IsNone(v) == v.t = "none"

\* The strings made of decimal digits only (str.isdigit) in the value universe.
DigitStrings == {"1", "7"}
isdigit(s) == s \in DigitStrings

\* str(v) for the values that reach it.
str(v) ==
  CASE v.t = "none" -> "None"
    [] v.t \in {"int", "str", "bool"} -> v.s
    [] v.t = "enum" -> "Kind.A"
    [] OTHER -> "<repr>"

\* str.lower() on the text of a bool.
lower(s) ==
  CASE s = "True" -> "true"
    [] s = "False" -> "false"
    [] OTHER -> s

\* v.value of an enum member: the underlying str value.
EnumValue(v) == PyStr(v.s)

(***************************************************************************)
(* Ordered mappings (Python dict): a sequence of <<key, value>> pairs with *)
(* pairwise distinct keys, in insertion order.                             *)
(***************************************************************************)
DictKeys(d) == {d[i][1] : i \in DOMAIN d}
DictHas(d, k) == \E i \in DOMAIN d : d[i][1] = k
DictGet(d, k) == d[CHOOSE i \in DOMAIN d : d[i][1] = k][2]
DictSet(d, k, v) ==
  IF DictHas(d, k)
  THEN [i \in DOMAIN d |-> IF d[i][1] = k THEN <<k, v>> ELSE d[i]]
  ELSE Append(d, <<k, v>>)
DictDel(d, k) == SelectSeq(d, LAMBDA e : e[1] # k)
\* list(d.keys())[list(d.values()).index(v)]: the key of the first entry holding v.
KeyOfValue(d, v) ==
  d[CHOOSE i \in DOMAIN d : d[i][2] = v /\ \A j \in 1..(i - 1) : d[j][2] # v][1]
DictValues(d) == {d[i][2] : i \in DOMAIN d}

\* F applied to the value of e: e is evaluated once, as an assignment to a
\* local variable does.
Bind(e, F(_)) == CHOOSE r \in {F(x) : x \in {e}} : TRUE

(***************************************************************************)
(* The name formatter (serializable.formatters.CurrentFormatter.formatter),*)
(* a swappable pair encode/decode.  Three formatters that satisfy          *)
(* decode(encode(x)) = x on the identifiers of the classes below: snake    *)
(* (identity), camel (lower camel case) and prefix (encode prepends "x-",  *)
(* decode strips one leading "x-").                                        *)
(***************************************************************************)
Formatters == {"snake", "camel", "prefix"}
\* The formatter in place when none was set.
DefaultFormatter == "camel"

CamelEncode(x) ==
  CASE x = "Box" -> "box"
    [] x = "Warehouse" -> "warehouse"
    [] x = "is_open" -> "isOpen"
    [] x = "is_new" -> "isNew"
    [] x = "box_id" -> "boxId"
    [] OTHER -> x

CamelDecode(x) ==
  CASE x = "Box" -> "box"
    [] x = "Warehouse" -> "warehouse"
    [] x = "isOpen" -> "is_open"
    [] x = "isNew" -> "is_new"
    [] x = "boxId" -> "box_id"
    [] OTHER -> x

PrefixEncode(x) ==
  CASE x = "id" -> "x-id"
    [] x = "x-id" -> "x-x-id"
    [] x = "label" -> "x-label"
    [] x = "x-label" -> "x-x-label"
    [] x = "boxes" -> "x-boxes"
    [] x = "x-boxes" -> "x-x-boxes"
    [] x = "tags" -> "x-tags"
    [] x = "x-tags" -> "x-x-tags"
    [] x = "is_open" -> "x-is_open"
    [] x = "x-is_open" -> "x-x-is_open"
    [] x = "kind" -> "x-kind"
    [] x = "is_new" -> "x-is_new"
    [] x = "x-is_new" -> "x-x-is_new"
    [] x = "bits" -> "x-bits"
    [] x = "x-bits" -> "x-x-bits"
    [] x = "x-kind" -> "x-x-kind"
    [] x = "box_id" -> "x-box_id"
    [] x = "x-box_id" -> "x-x-box_id"
    [] x = "item" -> "x-item"
    [] x = "x-item" -> "x-x-item"
    [] x = "Box" -> "x-Box"
    [] x = "Warehouse" -> "x-Warehouse"
    [] x = "." -> "x-."

PrefixDecode(x) ==
  CASE x = "x-id" -> "id"
    [] x = "x-x-id" -> "x-id"
    [] x = "x-label" -> "label"
    [] x = "x-x-label" -> "x-label"
    [] x = "x-boxes" -> "boxes"
    [] x = "x-x-boxes" -> "x-boxes"
    [] x = "x-tags" -> "tags"
    [] x = "x-x-tags" -> "x-tags"
    [] x = "x-is_open" -> "is_open"
    [] x = "x-x-is_open" -> "x-is_open"
    [] x = "x-kind" -> "kind"
    [] x = "x-is_new" -> "is_new"
    [] x = "x-x-is_new" -> "x-is_new"
    [] x = "x-bits" -> "bits"
    [] x = "x-x-bits" -> "x-bits"
    [] x = "x-x-kind" -> "x-kind"
    [] x = "x-box_id" -> "box_id"
    [] x = "x-x-box_id" -> "x-box_id"
    [] x = "x-item" -> "item"
    [] x = "x-x-item" -> "x-item"
    [] x = "x-Box" -> "Box"
    [] x = "x-Warehouse" -> "Warehouse"
    [] x = "x-." -> "."
    [] OTHER -> x

Encode(fmt, x) ==
  CASE fmt = "snake" -> x
    [] fmt = "camel" -> CamelEncode(x)
    [] fmt = "prefix" -> PrefixEncode(x)

Decode(fmt, x) ==
  CASE fmt = "snake" -> x
    [] fmt = "camel" -> CamelDecode(x)
    [] fmt = "prefix" -> PrefixDecode(x)

(***************************************************************************)
(* The classes the codecs are applied to: Box{id: int, label: str} and     *)
(* Warehouse{boxes: List[Box], tags: Optional[List[str]], is_open: bool,   *)
(* kind: Kind, is_new: Optional[bool], bits: List[bool]}, Kind an          *)
(* enum.Enum whose member A has the value "a".                             *)
(***************************************************************************)
ClassNames == {"Box", "Warehouse"}
EnumNames == {"Kind"}

\* The instance attributes in the order __init__ assigns them (o.__dict__),
\* each named "_" + property name; the leading "_" is stripped by k[1:].
DictOrder(c) ==
  CASE c = "Box" -> <<"id", "label">>
    [] c = "Warehouse" -> <<"boxes", "tags", "is_open", "kind", "is_new", "bits">>

\* The return annotation of each property getter.
Ty(opt, arr, base) == [opt |-> opt, arr |-> arr, base |-> base]
Annotation(c, p) ==
  CASE c = "Box" /\ p = "id" -> Ty(FALSE, FALSE, "int")
    [] c = "Box" /\ p = "label" -> Ty(FALSE, FALSE, "str")
    [] c = "Warehouse" /\ p = "boxes" -> Ty(FALSE, TRUE, "Box")
    [] c = "Warehouse" /\ p = "tags" -> Ty(TRUE, TRUE, "str")
    [] c = "Warehouse" /\ p = "is_open" -> Ty(FALSE, FALSE, "bool")
    [] c = "Warehouse" /\ p = "kind" -> Ty(FALSE, FALSE, "Kind")
    [] c = "Warehouse" /\ p = "is_new" -> Ty(TRUE, FALSE, "bool")
    [] c = "Warehouse" /\ p = "bits" -> Ty(FALSE, TRUE, "bool")

Range(s) == {s[i] : i \in DOMAIN s}
\* inspect.getmembers(klass, is_property): the properties of the class.
PropertyMembers(c) == Range(DictOrder(c))

\* f'{klass.__module__}.{klass.__qualname__}.{name}': the class and the name.
QualifiedPropertyName(c, p) == <<c, p>>

\* The parameters of __init__ that have no default value.
RequiredArguments(c) == IF c = "Box" THEN {"label"} ELSE {}

\* cls(**kwargs): __init__ takes one keyword per property, None being the
\* default of those that have one; an unexpected or a missing keyword is a
\* TypeError raised by the call of the constructor.
New(cls, kwargs) ==
  IF /\ DictKeys(kwargs) \subseteq PropertyMembers(cls)
     /\ RequiredArguments(cls) \subseteq DictKeys(kwargs)
  THEN PyObj(cls, [p \in PropertyMembers(cls) |->
                     IF DictHas(kwargs, p) THEN DictGet(kwargs, p) ELSE None])
  ELSE PyErr("TypeError")

PRIMITIVE_TYPES == {"bool", "int", "float", "str"}
SerializationTypes == {"JSON", "XML"}
DEFAULT_SERIALIZATION_TYPES == {"JSON", "XML"}
\* A key with no entry: dict.get(key, None).
Unset == "<unset>"
NoArrayConfig == <<>>
NoNames == [JSON |-> Unset, XML |-> Unset]

\* A custom scalar codec (a SimpleSerializable subclass): serialize prefixes
\* the text of the value with "#", deserialize strips it and parses an int.
CustomTypes == {"Tagged"}
Serialize(ct, v) ==
  CASE v.t \in {"int", "str"} /\ v.s = "1" -> PyStr("#1")
    [] v.t \in {"int", "str"} /\ v.s = "7" -> PyStr("#7")
    [] v.t \in {"int", "str"} /\ v.s = "a" -> PyStr("#a")
    [] OTHER -> PyStr("#<repr>")
Deserialize(ct, v) ==
  CASE v.t = "str" /\ v.s = "#1" -> PyInt("1")
    [] v.t = "str" /\ v.s = "#7" -> PyInt("7")
    [] OTHER -> PyErr("ValueError")

\* The bound of the model on the number of override registrations.
MaxOverrides == 2

(***************************************************************************)
(* State.  The six class attributes of ObjectMetadataLibrary, the methods  *)
(* register_klass has set on each class, the process-wide formatter, and   *)
(* the operation performed by the last step with what it returned.         *)
(***************************************************************************)
VARIABLES
  klass_property_array_config,  \* qualified property name -> <<array type, child name>>
  klass_property_attributes,    \* set of qualified property names
  klass_property_names,         \* qualified property name -> [JSON, XML]
  klass_property_types,         \* qualified property name -> mapped type
  klass_mappings,               \* qualified class name -> SerializableClass
  klass_property_mappings,      \* qualified class name -> property name -> SerializableProperty
  injected,                     \* class -> names of the methods set on it by setattr
  formatter,                    \* CurrentFormatter.formatter
  call,                         \* the last operation: its name, arguments and result
  class_config,                 \* class -> its base classes and what its class methods return
  n_overrides,                  \* how many override registrations were made
  recorded_before,              \* class -> the overrides recorded before its registration
  used                          \* the classes an encode call was made on

overrideVars == <<klass_property_array_config, klass_property_attributes,
                  klass_property_names, klass_property_types>>
registryVars == <<klass_property_array_config, klass_property_attributes,
                  klass_property_names, klass_property_types,
                  klass_mappings, klass_property_mappings>>
vars == <<klass_property_array_config, klass_property_attributes,
          klass_property_names, klass_property_types, klass_mappings,
          klass_property_mappings, injected, formatter, call, class_config,
          n_overrides, recorded_before, used>>

NoCall == [op |-> "none"]

(***************************************************************************)
(* ObjectMetadataLibrary.SerializableClass and SerializableProperty        *)
(***************************************************************************)
SerializableClass(klass, serialization_types) ==
  [name |-> klass, custom_name |-> Unset, serialization_types |-> serialization_types]

\* custom_names holds a reference to the dict passed in, not a copy:
\* names_ref is the key of that dict in _klass_property_names, or Unset for
\* the fresh empty dict that .get(qualified_property_name, {}) returned.
SerializableProperty(prop_name, prop_type, names_ref, custom_type, is_xml_attribute, xml_array_config) ==
  [name |-> prop_name, type_ |-> prop_type, names_ref |-> names_ref,
   custom_type |-> custom_type, is_xml_attribute |-> is_xml_attribute,
   xml_array_config |-> xml_array_config]

\* The custom_names property: the dict the reference points to, as it is now.
custom_names(prop) ==
  IF prop.names_ref = <<>> THEN NoNames ELSE klass_property_names[prop.names_ref]
custom_name(prop, serialization_type) ==
  IF serialization_type = "JSON" THEN custom_names(prop).JSON ELSE custom_names(prop).XML
is_optional(prop) == prop.type_.opt
is_array(prop) == prop.type_.arr
concrete_type(prop) == prop.type_.base
is_enum(prop) == concrete_type(prop) \in EnumNames
is_primitive_type(prop) == concrete_type(prop) \in PRIMITIVE_TYPES

\* Everything observable through a SerializableProperty.
Observable(prop) ==
  [custom_names |-> custom_names(prop), custom_type |-> prop.custom_type,
   is_xml_attribute |-> prop.is_xml_attribute, xml_array_config |-> prop.xml_array_config]

(***************************************************************************)
(* ObjectMetadataLibrary: registration                                     *)
(***************************************************************************)
\* type(klass) is Type: the type of a class is `type`, never typing.Type.
TypeOfKlassIsTypingType(klass) == FALSE

\* klass is the class object register_klass received; the keys of
\* klass_mappings are strings, so `klass in cls.klass_mappings` compares a
\* class object with strings.
is_klass_serializable(klass) ==
  IF TypeOfKlassIsTypingType(klass)
  THEN klass.name \in DOMAIN klass_mappings
  ELSE klass.t = "str" /\ klass.name \in DOMAIN klass_mappings

ClassObject(c) == [t |-> "class", name |-> c]

\* NewProperty without the lookup of the attribute flag.
NewProperty_NoAttributeFlag(c, name) ==
  LET q == QualifiedPropertyName(c, name)
  IN SerializableProperty(
       name,
       Annotation(c, name),
       IF q \in DOMAIN klass_property_names THEN q ELSE <<>>,
       IF q \in DOMAIN klass_property_types THEN klass_property_types[q] ELSE Unset,
       FALSE,
       IF q \in DOMAIN klass_property_array_config
       THEN klass_property_array_config[q] ELSE NoArrayConfig)

\* The SerializableProperty register_klass builds for one property.
NewProperty(c, name) ==
  LET q == QualifiedPropertyName(c, name)
  IN SerializableProperty(
       name,
       Annotation(c, name),
       IF q \in DOMAIN klass_property_names THEN q ELSE <<>>,
       IF q \in DOMAIN klass_property_types THEN klass_property_types[q] ELSE Unset,
       q \in klass_property_attributes,
       IF q \in DOMAIN klass_property_array_config
       THEN klass_property_array_config[q] ELSE NoArrayConfig)

\* The overrides the stores hold for the properties of class c, each as
\* <<kind, property, value>>.
RecordedOverrides(c) ==
  {<<"json_name", p, klass_property_names[<<c, p>>].JSON>> :
     p \in {x \in PropertyMembers(c) : <<c, x>> \in DOMAIN klass_property_names
                                       /\ klass_property_names[<<c, x>>].JSON # Unset}}
  \cup
  {<<"xml_name", p, klass_property_names[<<c, p>>].XML>> :
     p \in {x \in PropertyMembers(c) : <<c, x>> \in DOMAIN klass_property_names
                                       /\ klass_property_names[<<c, x>>].XML # Unset}}
  \cup
  {<<"xml_attribute", p, TRUE>> :
     p \in {x \in PropertyMembers(c) : <<c, x>> \in klass_property_attributes}}
  \cup
  {<<"xml_array_config", p, klass_property_array_config[<<c, p>>]>> :
     p \in {x \in PropertyMembers(c) : <<c, x>> \in DOMAIN klass_property_array_config}}
  \cup
  {<<"type_mapping", p, klass_property_types[<<c, p>>]>> :
     p \in {x \in PropertyMembers(c) : <<c, x>> \in DOMAIN klass_property_types}}

\* An override of `kind` for q replaces the earlier ones of that kind for q.
Supersede(kind, q, value) ==
  [c \in ClassNames |->
     IF c = q[1]
     THEN {e \in recorded_before[c] : ~(e[1] = kind /\ e[2] = q[2] /\ e[3] # value)}
     ELSE recorded_before[c]]

InjectedMethods(serialization_types) ==
  (IF "JSON" \in serialization_types THEN {"as_json", "from_json"} ELSE {})
  \cup (IF "XML" \in serialization_types THEN {"as_xml"} ELSE {})

register_klass(klass, serialization_types) ==
  /\ IF is_klass_serializable(ClassObject(klass))
     THEN UNCHANGED <<klass_mappings, klass_property_mappings, injected, recorded_before>>
     ELSE /\ klass_mappings' =
               (klass :> SerializableClass(klass, serialization_types)) @@ klass_mappings
          /\ klass_property_mappings' =
               (klass :> [name \in PropertyMembers(klass) |-> NewProperty(klass, name)])
               @@ klass_property_mappings
          /\ injected' = [injected EXCEPT ![klass] = @ \cup InjectedMethods(serialization_types)]
          /\ recorded_before' = [recorded_before EXCEPT ![klass] = RecordedOverrides(klass)]
  /\ call' = [op |-> "register_klass", cls |-> klass]
  /\ UNCHANGED <<overrideVars, formatter, class_config, n_overrides, used>>

register_custom_json_property_name(qual_name, json_property_name) ==
  /\ n_overrides < MaxOverrides
  /\ n_overrides' = n_overrides + 1
  /\ klass_property_names' =
       IF qual_name \in DOMAIN klass_property_names
       THEN [klass_property_names EXCEPT ![qual_name].JSON = json_property_name]
       ELSE (qual_name :> [JSON |-> json_property_name, XML |-> Unset]) @@ klass_property_names
  /\ recorded_before' = Supersede("json_name", qual_name, json_property_name)
  /\ call' = [op |-> "register_custom_json_property_name"]
  /\ UNCHANGED <<klass_property_array_config, klass_property_attributes, klass_property_types,
                 klass_mappings, klass_property_mappings, injected, formatter, class_config, used>>

register_custom_xml_property_name(qual_name, xml_property_name) ==
  /\ n_overrides < MaxOverrides
  /\ n_overrides' = n_overrides + 1
  /\ klass_property_names' =
       IF qual_name \in DOMAIN klass_property_names
       THEN [klass_property_names EXCEPT ![qual_name].XML = xml_property_name]
       ELSE (qual_name :> [JSON |-> Unset, XML |-> xml_property_name]) @@ klass_property_names
  /\ recorded_before' = Supersede("xml_name", qual_name, xml_property_name)
  /\ call' = [op |-> "register_custom_xml_property_name"]
  /\ UNCHANGED <<klass_property_array_config, klass_property_attributes, klass_property_types,
                 klass_mappings, klass_property_mappings, injected, formatter, class_config, used>>

register_xml_property_array_config(qual_name, array_type, child_name) ==
  /\ n_overrides < MaxOverrides
  /\ n_overrides' = n_overrides + 1
  /\ klass_property_array_config' =
       (qual_name :> <<array_type, child_name>>) @@ klass_property_array_config
  /\ recorded_before' = Supersede("xml_array_config", qual_name, <<array_type, child_name>>)
  /\ call' = [op |-> "register_xml_property_array_config"]
  /\ UNCHANGED <<klass_property_attributes, klass_property_names, klass_property_types,
                 klass_mappings, klass_property_mappings, injected, formatter, class_config, used>>

register_xml_property_attribute(qual_name) ==
  /\ n_overrides < MaxOverrides
  /\ n_overrides' = n_overrides + 1
  /\ klass_property_attributes' = klass_property_attributes \cup {qual_name}
  /\ call' = [op |-> "register_xml_property_attribute"]
  /\ UNCHANGED <<klass_property_array_config, klass_property_names, klass_property_types,
                 klass_mappings, klass_property_mappings, injected, formatter, class_config,
                 recorded_before, used>>

register_property_type_mapping(qual_name, mapped_type) ==
  /\ n_overrides < MaxOverrides
  /\ n_overrides' = n_overrides + 1
  /\ klass_property_types' = (qual_name :> mapped_type) @@ klass_property_types
  /\ recorded_before' = Supersede("type_mapping", qual_name, mapped_type)
  /\ call' = [op |-> "register_property_type_mapping"]
  /\ UNCHANGED <<klass_property_array_config, klass_property_attributes, klass_property_names,
                 klass_mappings, klass_property_mappings, injected, formatter, class_config, used>>

(***************************************************************************)
(* What a class offers.  class_config[c] holds the bases of c and what its *)
(* class methods return: get_property_key_mappings (key_mappings, python   *)
(* name -> wire name), get_property_data_class_mappings, get_array_        *)
(* property_configuration, properties_as_attributes, get_json_key_removals.*)
(***************************************************************************)
ClassConfig(bases, key_mappings, data_class_mappings, array_configuration, attributes, removals) ==
  [bases |-> bases, key_mappings |-> key_mappings,
   data_class_mappings |-> data_class_mappings,
   array_configuration |-> array_configuration,
   attributes |-> attributes, json_key_removals |-> removals]

\* A class that derives from none of the library's base classes.
PlainClass == ClassConfig({}, <<>>, <<>>, <<>>, {}, {})

\* callable(getattr(klass, method, None)) for a class, a codec or a builtin.
HasMethod(klass, method) ==
  CASE klass \in ClassNames ->
         \/ method \in injected[klass]
         \/ method \in {"as_xml", "from_xml"}
            /\ "XmlSerializableObject" \in class_config[klass].bases
         \/ method = "from_json"
            /\ "JsonSerializableObject" \in class_config[klass].bases
    [] klass \in CustomTypes -> method \in {"serialize", "deserialize"}
    [] OTHER -> FALSE

\* Whether cls inherits the class method: get_json_key_removals is defined by
\* JsonSerializableObject, properties_as_attributes by XmlSerializableObject,
\* the other three by SerializableObject, the base of both.
HasClassMethod(cls, method) ==
  CASE method = "get_json_key_removals" ->
         "JsonSerializableObject" \in class_config[cls].bases
    [] method = "properties_as_attributes" ->
         "XmlSerializableObject" \in class_config[cls].bases
    [] OTHER -> class_config[cls].bases # {}

\* The names in cls.__dict__: the properties and the other class attributes.
ClassDict(c) == PropertyMembers(c) \cup {"__init__", "__module__", "__doc__"}

(***************************************************************************)
(* xml.etree.ElementTree.Element: tag, attrib (an ordered mapping), text   *)
(* (NoText for None) and the child elements.                               *)
(***************************************************************************)
NoText == "<None>"
Element(tag, attrib) == [t |-> "elem", tag |-> tag, attrib |-> attrib, text |-> NoText, children |-> <<>>]
WithText(e, text) == [e EXCEPT !.text = text]
append(e, child) == [e EXCEPT !.children = Append(@, child)]
\* ElementTree.SubElement(parent, tag).text = text
SubElementText(parent, tag, text) == append(parent, WithText(Element(tag, <<>>), text))

(***************************************************************************)
(* DefaultJsonEncoder.default and _as_json                                 *)
(***************************************************************************)
\* klass_property_mappings.get(klass_qualified_name, {})
serializable_property_info(klass) ==
  IF klass \in DOMAIN klass_property_mappings THEN klass_property_mappings[klass] ELSE <<>>

\* klass(v) for a klass that is called with one positional argument: int, str,
\* the enum Kind, or a class (v is then its first constructor argument).
Construct(klass, v) ==
  CASE klass = "int" /\ v.t \in {"int", "str"} /\ isdigit(v.s) -> PyInt(v.s)
    [] klass = "int" /\ v.t = "bool" -> PyInt(IF v.s = "True" THEN "1" ELSE "0")
    [] klass = "str" -> PyStr(str(v))
    [] klass = "Kind" /\ v.t = "str" /\ v.s = "a" -> PyEnum("Kind", "a")
    [] klass = "Kind" /\ v.t = "enum" -> v
    [] klass \in {"int", "Kind"} -> PyErr("ValueError")
    [] klass \in ClassNames -> New(klass, << <<DictOrder(klass)[1], v>> >>)
    [] OTHER -> PyErr("TypeError")

\* prop_info.custom_type.serialize(v) if it has one, else prop_info.custom_type(v).
JsonCustomValue(custom_type, v) ==
  IF HasMethod(custom_type, "serialize")
  THEN Serialize(custom_type, v) ELSE Construct(custom_type, v)

\* The key d is updated with for attribute k of o.
JsonKey(info, k) ==
  IF k \in DOMAIN info
  THEN LET name == custom_name(info[k], "JSON")
           new_key == IF name # Unset THEN name ELSE k
       IN Encode(formatter, Encode(formatter, new_key))
  ELSE Encode(formatter, k)

RECURSIVE default_loop(_, _, _, _)
\* The loop over o.__dict__.items() from the i-th item on, d built so far.
default_loop(o, info, d, i) ==
  IF i > Len(DictOrder(o.cls)) THEN d
  ELSE LET k == DictOrder(o.cls)[i]
           v == o.f[k]
           value == IF k \in DOMAIN info /\ info[k].custom_type # Unset
                    THEN JsonCustomValue(info[k].custom_type, v) ELSE v
       IN IF IsNone(v)
          THEN default_loop(o, info, d, i + 1)
          ELSE default_loop(o, info, DictSet(d, JsonKey(info, k), value), i + 1)

\* DefaultJsonEncoder.default(o): what it returns for an enum member, a list
\* or set, and an instance of a class.
default(o) ==
  CASE o.t = "enum" -> EnumValue(o)
    [] o.t = "list" -> o
    [] OTHER -> PyDict(default_loop(o, serializable_property_info(o.cls), <<>>, 1))

RECURSIVE dumps(_)
\* json.dumps(v, cls=DefaultJsonEncoder), read back as a document value: the
\* encoder calls default for what JSON has no form for and encodes its result.
dumps(v) ==
  CASE v.t \in {"none", "int", "str", "bool"} -> v
    [] v.t = "list" -> PyList([i \in DOMAIN v.items |-> dumps(v.items[i])])
    [] v.t = "dict" -> PyDict([i \in DOMAIN v.kv |-> <<v.kv[i][1], dumps(v.kv[i][2])>>])
    [] OTHER -> dumps(default(v))

_as_json(self) == dumps(self)

(***************************************************************************)
(* _as_xml (set on a class by register_klass) and                          *)
(* XmlSerializableObject.as_xml (inherited), which call each other through *)
(* the as_xml attribute of a nested value.                                 *)
(***************************************************************************)
RECURSIVE _as_xml(_, _), as_xml(_, _), call_as_xml(_, _)
RECURSIVE _as_xml_items(_, _, _, _, _), _as_xml_elements(_, _, _, _)
RECURSIVE as_xml_items(_, _, _, _), as_xml_elements(_, _, _)

\* v.as_xml(as_string=False, element_name=element_name): the method the
\* class of v has, AttributeError when it has none.
call_as_xml(v, element_name) ==
  IF v.t # "obj" THEN PyErr("AttributeError")
  ELSE IF "as_xml" \in injected[v.cls] THEN _as_xml(v, element_name)
  ELSE IF HasMethod(v.cls, "as_xml") THEN as_xml(v, element_name)
  ELSE PyErr("AttributeError")

\* The wire name of a property in _as_xml before the formatter is applied.
XmlName(prop_info, new_key) ==
  IF custom_name(prop_info, "XML") # Unset THEN custom_name(prop_info, "XML") ELSE new_key

RECURSIVE _as_xml_attributes(_, _, _, _)
\* The first loop of _as_xml, from the i-th attribute of self on.
_as_xml_attributes(self, info, this_e_attributes, i) ==
  IF i > Len(DictOrder(self.cls)) THEN this_e_attributes
  ELSE LET k == DictOrder(self.cls)[i]
           v == self.f[k]
       IN IF k \in DOMAIN info /\ info[k].is_xml_attribute
          THEN _as_xml_attributes(self, info,
                 DictSet(this_e_attributes, Encode(formatter, XmlName(info[k], k)), str(v)),
                 i + 1)
          ELSE _as_xml_attributes(self, info, this_e_attributes, i + 1)

\* The text of an array item of a primitive type.
ItemText(prop_info, j) ==
  IF concrete_type(prop_info) \in {"float", "int"} THEN str(j)
  ELSE IF concrete_type(prop_info) = "bool" THEN lower(str(j))
  ELSE str(j)

\* for j in v: the items from the i-th on are put under nested_e.
_as_xml_items(prop_info, nested_key, v, nested_e, i) ==
  IF IsErr(nested_e) \/ i > Len(v.items) THEN nested_e
  ELSE LET j == v.items[i]
           item == call_as_xml(j, nested_key)
       IN IF ~is_primitive_type(prop_info)
          THEN IF IsErr(item) THEN item
               ELSE _as_xml_items(prop_info, nested_key, v, append(nested_e, item), i + 1)
          ELSE _as_xml_items(prop_info, nested_key, v,
                             SubElementText(nested_e, nested_key, ItemText(prop_info, j)), i + 1)

\* The array branch of _as_xml.
XmlArray(this_e, prop_info, new_key, v) ==
  IF prop_info.xml_array_config = NoArrayConfig THEN PyErr("TypeError")
  ELSE LET _array_type == prop_info.xml_array_config[1]
           nested_key == prop_info.xml_array_config[2]
       IN IF v.t # "list" THEN PyErr("TypeError")
          ELSE IF _array_type = "NESTED"
          THEN LET nested_e == _as_xml_items(prop_info, nested_key, v, Element(new_key, <<>>), 1)
               IN IF IsErr(nested_e) THEN nested_e ELSE append(this_e, nested_e)
          ELSE _as_xml_items(prop_info, nested_key, v, this_e, 1)

\* A scalar type_: the annotation itself, not what Optional or List wraps.
TypeIs(prop_info, bases) ==
  ~prop_info.type_.opt /\ ~prop_info.type_.arr /\ prop_info.type_.base \in bases

\* What the second loop of _as_xml does with one property that has metadata,
\* is not an XML attribute and whose name is not '.'.
XmlProperty(this_e, prop_info, new_key, v) ==
  IF prop_info.custom_type # Unset
  THEN IF HasMethod(prop_info.custom_type, "serialize")
       THEN SubElementText(this_e, new_key, str(Serialize(prop_info.custom_type, v)))
       ELSE PyErr("AttributeError")
  ELSE IF is_array(prop_info) THEN XmlArray(this_e, prop_info, new_key, v)
  ELSE IF is_enum(prop_info)
       THEN IF v.t = "enum" THEN SubElementText(this_e, new_key, str(EnumValue(v)))
            ELSE PyErr("AttributeError")
  ELSE IF ~is_primitive_type(prop_info)
       THEN LET child == call_as_xml(v, new_key)
            IN IF IsErr(child) THEN child ELSE append(this_e, child)
  ELSE IF TypeIs(prop_info, {"float", "int"}) THEN SubElementText(this_e, new_key, str(v))
  ELSE IF TypeIs(prop_info, {"bool"}) THEN SubElementText(this_e, new_key, lower(str(v)))
  ELSE SubElementText(this_e, new_key, str(v))

\* SkipsElement without the test of the attribute flag.
SkipsElement_IgnoresAttributeFlag(info, k, v) == IsNone(v) \/ k \notin DOMAIN info

\* The properties the second loop of _as_xml passes over: a None value, no
\* metadata, or an XML attribute.
SkipsElement(info, k, v) == IsNone(v) \/ k \notin DOMAIN info \/ info[k].is_xml_attribute

\* The second loop of _as_xml, from the i-th attribute of self on.
_as_xml_elements(self, info, this_e, i) ==
  IF IsErr(this_e) \/ i > Len(DictOrder(self.cls)) THEN this_e
  ELSE LET k == DictOrder(self.cls)[i]
           v == self.f[k]
       IN IF SkipsElement(info, k, v)
          THEN _as_xml_elements(self, info, this_e, i + 1)
          ELSE IF XmlName(info[k], k) = "."
          THEN _as_xml_elements(self, info, WithText(this_e, str(v)), i + 1)
          ELSE _as_xml_elements(self, info,
                 XmlProperty(this_e, info[k], Encode(formatter, XmlName(info[k], k)), v),
                 i + 1)

\* element_name or CurrentFormatter.formatter.encode(self.__class__.__name__)
RootTag(self, element_name) ==
  IF element_name # Unset THEN element_name ELSE Encode(formatter, self.cls)

_as_xml(self, element_name) ==
  LET info == serializable_property_info(self.cls)
      this_e == Element(RootTag(self, element_name), _as_xml_attributes(self, info, <<>>, 1))
  IN _as_xml_elements(self, info, this_e, 1)

(***************************************************************************)
(* XmlSerializableObject.as_xml                                            *)
(***************************************************************************)
\* get_property_key_mappings()[new_key] when new_key is a key of it.
MappedKey(cfg, new_key) ==
  IF DictHas(cfg.key_mappings, new_key) THEN DictGet(cfg.key_mappings, new_key) ELSE new_key

RECURSIVE as_xml_attributes(_, _, _)
\* The first loop of as_xml, from the i-th attribute of self on.
as_xml_attributes(self, this_e_attributes, i) ==
  IF i > Len(DictOrder(self.cls)) THEN this_e_attributes
  ELSE LET k == DictOrder(self.cls)[i]
           cfg == class_config[self.cls]
       IN IF k \in cfg.attributes
          THEN as_xml_attributes(self,
                 DictSet(this_e_attributes, Encode(formatter, MappedKey(cfg, k)), str(self.f[k])),
                 i + 1)
          ELSE as_xml_attributes(self, this_e_attributes, i + 1)

\* for j in v: an item that has as_xml is appended under its own root tag,
\* any other becomes a sub element named item_key.
as_xml_items(item_key, v, nested_e, i) ==
  IF IsErr(nested_e) \/ i > Len(v.items) THEN nested_e
  ELSE LET j == v.items[i]
           item == call_as_xml(j, Unset)
       IN IF j.t = "obj" /\ HasMethod(j.cls, "as_xml")
          THEN IF IsErr(item) THEN item
               ELSE as_xml_items(item_key, v, append(nested_e, item), i + 1)
          ELSE as_xml_items(item_key, v, SubElementText(nested_e, item_key, str(j)), i + 1)

\* The isinstance(v, (list, set)) branch of as_xml.
LegacyArray(this_e, cfg, key, v) ==
  LET configured == DictHas(cfg.array_configuration, key)
      array_type == IF configured THEN DictGet(cfg.array_configuration, key)[1] ELSE "FLAT"
      nested_key == IF configured THEN DictGet(cfg.array_configuration, key)[2] ELSE key
      new_key == Encode(formatter, key)
  IN IF array_type = "NESTED"
     THEN LET nested_e == as_xml_items(new_key, v, Element(new_key, <<>>), 1)
          IN IF IsErr(nested_e) THEN nested_e ELSE append(this_e, nested_e)
     ELSE as_xml_items(nested_key, v, this_e, 1)

\* What the second loop of as_xml does with one property that is not an XML
\* attribute and is not mapped to '.'; key is its name after the key mapping.
LegacyProperty(this_e, cfg, key, v) ==
  IF DictHas(cfg.data_class_mappings, key)
  THEN LET klass_ss == DictGet(cfg.data_class_mappings, key)
           new_key == Encode(formatter, key)
           child == call_as_xml(v, new_key)
       IN IF HasMethod(klass_ss, "as_xml")
          THEN IF IsErr(child) THEN child ELSE append(this_e, child)
          ELSE IF HasMethod(klass_ss, "serialize")
          THEN SubElementText(this_e, new_key, str(Serialize(klass_ss, v)))
          ELSE this_e
  ELSE IF v.t = "list" THEN LegacyArray(this_e, cfg, key, v)
  ELSE IF v.t = "enum" THEN SubElementText(this_e, Encode(formatter, key), str(EnumValue(v)))
  ELSE SubElementText(this_e, Encode(formatter, key), str(v))

\* The second loop of as_xml, from the i-th attribute of self on.
as_xml_elements(self, this_e, i) ==
  IF IsErr(this_e) \/ i > Len(DictOrder(self.cls)) THEN this_e
  ELSE LET k == DictOrder(self.cls)[i]
           v == self.f[k]
           cfg == class_config[self.cls]
       IN IF IsNone(v) \/ k \in cfg.attributes
          THEN as_xml_elements(self, this_e, i + 1)
          ELSE IF DictHas(cfg.key_mappings, k) /\ DictGet(cfg.key_mappings, k) = "."
          THEN as_xml_elements(self, WithText(this_e, str(v)), i + 1)
          ELSE as_xml_elements(self, LegacyProperty(this_e, cfg, MappedKey(cfg, k), v), i + 1)

as_xml(self, element_name) ==
  as_xml_elements(self,
                  Element(RootTag(self, element_name), as_xml_attributes(self, <<>>, 1)),
                  1)

(***************************************************************************)
(* _from_json (set on a class by register_klass) and                       *)
(* JsonSerializableObject.from_json (inherited): the same body.            *)
(***************************************************************************)
RECURSIVE from_json(_, _), _from_json(_, _), call_from_json(_, _)
RECURSIVE json_keys(_, _, _, _), json_items(_, _, _, _, _), json_values(_, _, _)

\* The first loop: for k, v in data.items(), from the i-th item of data on;
\* _data is the copy being rewritten.  del moves a key that is set again to
\* the end of the mapping.
json_keys(cls, data, _data, i) ==
  IF i > Len(data) THEN PyDict(_data)
  ELSE LET k == data[i][1]
           v == data[i][2]
           cfg == class_config[cls]
           decoded_k == Decode(formatter, k)
           mapped_k == KeyOfValue(cfg.key_mappings, decoded_k)
       IN IF ~HasClassMethod(cls, "get_json_key_removals") THEN PyErr("AttributeError")
          ELSE IF k \in cfg.json_key_removals
          THEN json_keys(cls, data, DictDel(_data, k), i + 1)
          ELSE IF decoded_k \in DictValues(cfg.key_mappings)
          THEN json_keys(cls, data,
                         DictSet(DictDel(_data, k),
                                 IF mapped_k = "." THEN decoded_k ELSE mapped_k, v),
                         i + 1)
          ELSE json_keys(cls, data, DictSet(DictDel(_data, k), decoded_k, v), i + 1)

\* What one value, or one item of a list, is turned into for klass; the
\* deserialize branch exists for a data-class mapping only.
JsonValue(klass, with_deserialize, j) ==
  IF HasMethod(klass, "from_json") THEN call_from_json(klass, j)
  ELSE IF with_deserialize /\ HasMethod(klass, "deserialize") THEN Deserialize(klass, j)
  ELSE Construct(klass, j)

\* for j in v: items.append(...), from the i-th item on.
json_items(klass, with_deserialize, v, items, i) ==
  IF i > Len(v.items) THEN PyList(items)
  ELSE LET item == JsonValue(klass, with_deserialize, v.items[i])
       IN IF IsErr(item) THEN item
          ELSE json_items(klass, with_deserialize, v, Append(items, item), i + 1)

\* The second loop: for k, v in _data.items(), from the i-th item on.
json_values(cls, _data, i) ==
  IF i > Len(_data) THEN PyDict(_data)
  ELSE LET k == _data[i][1]
           v == _data[i][2]
           cfg == class_config[cls]
           value ==
             IF DictHas(cfg.data_class_mappings, k)
             THEN LET klass == DictGet(cfg.data_class_mappings, k)
                  IN IF v.t = "list" THEN json_items(klass, TRUE, v, <<>>, 1)
                     ELSE JsonValue(klass, TRUE, v)
             ELSE IF DictHas(cfg.array_configuration, k) /\ v.t = "list"
             THEN json_items(DictGet(cfg.array_configuration, k)[3], FALSE, v, <<>>, 1)
             ELSE v
       IN Bind(value, LAMBDA x : IF IsErr(x) THEN x
                                 ELSE json_values(cls, DictSet(_data, k, x), i + 1))

\* The mapping the constructor is called with: _data after the two loops, or
\* the error that ended them.  data.items() needs data to be a mapping.
JsonKeywords(cls, data) ==
  IF data.t # "dict" THEN PyErr("AttributeError")
  ELSE Bind(json_keys(cls, data.kv, data.kv, 1),
            LAMBDA _data : IF IsErr(_data) THEN _data ELSE json_values(cls, _data.kv, 1))

_from_json(cls, data) ==
  Bind(JsonKeywords(cls, data),
       LAMBDA _data : IF IsErr(_data) THEN _data ELSE New(cls, _data.kv))

from_json(cls, data) ==
  Bind(JsonKeywords(cls, data),
       LAMBDA _data : IF IsErr(_data) THEN _data ELSE New(cls, _data.kv))

\* klass.from_json(data=j).  The from_json register_klass has set on klass is
\* a plain function: looked up on the class it is not bound, so its cls
\* parameter gets no argument.  Otherwise it is the inherited class method.
call_from_json(klass, j) ==
  IF "from_json" \in injected[klass] THEN PyErr("TypeError")
  ELSE IF HasMethod(klass, "from_json") THEN from_json(klass, j)
  ELSE PyErr("AttributeError")

(***************************************************************************)
(* XmlSerializableObject.from_xml.  The elements carry no namespace, so    *)
(* the tags are compared as they are.                                      *)
(***************************************************************************)
RECURSIVE from_xml(_, _), call_from_xml(_, _)
RECURSIVE from_xml_attributes(_, _, _, _), from_xml_nested(_, _, _, _, _)
RECURSIVE from_xml_children(_, _, _, _)

UnmappedElement == PyErr("ValueError: does not map to a Property of Class")
OnlyNestedExpected == PyErr("ValueError: Only NESTED expected here!")
OnlyFlatExpected == PyErr("ValueError: Only FLAT expected here!")
UnexpectedNestedElement == PyErr("ValueError: Only nested_tag elements expected")

\* str.strip() on the texts of the elements.
strip(s) ==
  CASE s = " a " -> "a"
    [] OTHER -> s

\* child_e.text: None for an element without text.
TextOf(e) == IF e.text = NoText THEN None ELSE PyStr(e.text)

\* int(str(x)) if str(x).isdigit() else x
DigitsToInt(x) == IF isdigit(str(x)) THEN PyInt(str(x)) ELSE x

\* The python name a decoded wire name stands for in get_property_key_mappings.
PropertyOfWireName(cfg, decoded_name) ==
  IF decoded_name \in DictValues(cfg.key_mappings)
  THEN KeyOfValue(cfg.key_mappings, decoded_name) ELSE decoded_name

\* klass.from_xml(data=e): AttributeError for a klass that has none.
call_from_xml(klass, e) ==
  IF HasMethod(klass, "from_xml") THEN from_xml(klass, e) ELSE PyErr("AttributeError")

\* The loop over data.attrib.items(), from the i-th attribute on.
from_xml_attributes(cls, attrib, _data, i) ==
  IF i > Len(attrib) THEN PyDict(_data)
  ELSE LET cfg == class_config[cls]
           attribute_value == PyStr(attrib[i][2])
           decoded_name == PropertyOfWireName(cfg, Decode(formatter, attrib[i][1]))
           klass == DictGet(cfg.data_class_mappings, decoded_name)
           value == IF DictHas(cfg.data_class_mappings, decoded_name)
                    THEN IF HasMethod(klass, "deserialize")
                         THEN Deserialize(klass, attribute_value)
                         ELSE Construct(klass, attribute_value)
                    ELSE DigitsToInt(attribute_value)
       IN IF decoded_name \notin cfg.attributes
          THEN from_xml_attributes(cls, attrib, _data, i + 1)
          ELSE IF IsErr(value) THEN value
          ELSE from_xml_attributes(cls, attrib, DictSet(_data, decoded_name, value), i + 1)

\* for sub_child_e in child_e, from the i-th on: each must be tagged
\* nested_tag and is decoded by klass.from_xml.
from_xml_nested(klass, nested_tag, child_e, items, i) ==
  IF i > Len(child_e.children) THEN PyList(items)
  ELSE LET sub_child_e == child_e.children[i]
           item == call_from_xml(klass, sub_child_e)
       IN IF sub_child_e.tag # nested_tag THEN UnexpectedNestedElement
          ELSE IF IsErr(item) THEN item
          ELSE from_xml_nested(klass, nested_tag, child_e, Append(items, item), i + 1)

\* The first array configuration, in the order of
\* get_array_property_configuration(), that holds the tag: of its entries
\* (array type, child name, class) only the child name is a str.
FlatConfigOfTag(cfg, tag) ==
  LET ac == cfg.array_configuration
      matches == {i \in DOMAIN ac : tag = ac[i][2][2]}
  IN IF matches = {} THEN <<>>
     ELSE ac[CHOOSE i \in matches : \A j \in matches : i <= j]

\* What one child element adds to _data.
FromXmlChild(cls, child_e, _data) ==
  LET cfg == class_config[cls]
      array_config == FlatConfigOfTag(cfg, child_e.tag)
      decoded_name == PropertyOfWireName(cfg, Decode(formatter, child_e.tag))
  IN IF DictHas(cfg.array_configuration, decoded_name)
     THEN LET config == DictGet(cfg.array_configuration, decoded_name)
              items == from_xml_nested(config[3], config[2], child_e, <<>>, 1)
          IN IF config[1] # "NESTED" THEN OnlyNestedExpected
             ELSE IF IsErr(items) THEN items
             ELSE PyDict(DictSet(_data, decoded_name, items))
     ELSE IF array_config # <<>>
     THEN LET prop_name == array_config[1]
              klass == array_config[2][3]
              item == IF HasMethod(klass, "from_xml") THEN from_xml(klass, child_e)
                      ELSE Construct(klass, TextOf(child_e))
              so_far == IF DictHas(_data, prop_name) THEN DictGet(_data, prop_name).items
                        ELSE <<>>
          IN IF array_config[2][1] # "FLAT" THEN OnlyFlatExpected
             ELSE IF IsErr(item) THEN item
             ELSE PyDict(DictSet(_data, prop_name, PyList(Append(so_far, item))))
     ELSE IF DictHas(cfg.data_class_mappings, decoded_name)
     THEN LET klass == DictGet(cfg.data_class_mappings, decoded_name)
              value == IF HasMethod(klass, "from_xml") THEN from_xml(klass, child_e)
                       ELSE IF HasMethod(klass, "deserialize")
                       THEN Deserialize(klass, PyStr(str(TextOf(child_e))))
                       ELSE Construct(klass, PyStr(str(TextOf(child_e))))
          IN IF IsErr(value) THEN value ELSE PyDict(DictSet(_data, decoded_name, value))
     ELSE IF decoded_name \in ClassDict(cls)
     THEN PyDict(DictSet(_data, decoded_name, DigitsToInt(TextOf(child_e))))
     ELSE UnmappedElement

\* for child_e in data, from the i-th child on.
from_xml_children(cls, data, _data, i) ==
  IF i > Len(data.children) THEN PyDict(_data)
  ELSE Bind(FromXmlChild(cls, data.children[i], _data),
            LAMBDA next : IF IsErr(next) THEN next
                          ELSE from_xml_children(cls, data, next.kv, i + 1))

\* The mapping the constructor is called with: _data after the attributes,
\* the text and the children, or the error that ended the decoding.
XmlKeywords(cls, data) ==
  LET cfg == class_config[cls]
      WithTextOf(_data) ==
        IF data.text \notin {NoText, ""} /\ "." \in DictValues(cfg.key_mappings)
        THEN DictSet(_data, KeyOfValue(cfg.key_mappings, "."), PyStr(strip(data.text)))
        ELSE _data
  IN Bind(from_xml_attributes(cls, data.attrib, <<>>, 1),
          LAMBDA attributes :
            IF IsErr(attributes) THEN attributes
            ELSE Bind(WithTextOf(attributes.kv),
                      LAMBDA _data : from_xml_children(cls, data, _data, 1)))

from_xml(cls, data) ==
  Bind(XmlKeywords(cls, data),
       LAMBDA _data : IF IsErr(_data) THEN _data ELSE New(cls, _data.kv))

(***************************************************************************)
(* The instances the codecs are applied to.                                *)
(***************************************************************************)
\* The bound of the model on the length of a collection.
MaxItems == 2

BoundedSeq(S, n) == UNION {[1..m -> S] : m \in 0..n}

Box(id, label) == PyObj("Box", [id |-> id, label |-> label])
Warehouse(boxes, tags, is_open, kind) ==
  PyObj("Warehouse", [boxes |-> boxes, tags |-> tags, is_open |-> is_open, kind |-> kind,
                      is_new |-> None, bits |-> None])

SomeBoxes == {Box(PyInt("1"), PyStr("a")), Box(None, PyStr("7"))}

\* The values a property takes.
ValuesOf(p) ==
  CASE p = "id" -> {None, PyInt("1")}
    [] p = "label" -> {PyStr("a"), PyStr("7")}
    [] p = "boxes" -> {PyList(x) : x \in BoundedSeq(SomeBoxes, MaxItems)}
    [] p = "tags" -> {None} \cup {PyList(x) : x \in BoundedSeq({PyStr("a"), PyStr("7")}, MaxItems)}
    [] p = "is_open" -> {None, PyBool(TRUE), PyBool(FALSE)}
    [] p = "kind" -> {None, PyEnum("Kind", "a")}
    [] p = "is_new" -> {None, PyBool(TRUE), PyBool(FALSE)}
    [] p = "bits" -> {None} \cup {PyList(x) : x \in BoundedSeq({PyBool(TRUE), PyBool(FALSE)}, MaxItems)}

Boxes == {Box(id, label) : id \in ValuesOf("id"), label \in ValuesOf("label")}

BareWarehouse == Warehouse(None, None, None, None)
EmptyWarehouse == Warehouse(PyList(<<>>), None, None, None)
FullWarehouse ==
  Warehouse(PyList(<<Box(PyInt("1"), PyStr("a"))>>), PyList(<<PyStr("7")>>), PyBool(TRUE),
            PyEnum("Kind", "a"))
\* Every value of one property, the others as in one of the two above.
Warehouses ==
  UNION {{[w EXCEPT !.f[p] = v] : w \in {BareWarehouse, EmptyWarehouse, FullWarehouse},
                                  v \in ValuesOf(p)} :
           p \in PropertyMembers("Warehouse")}

Objects == Boxes \cup Warehouses

\* The instances used while the registry is being filled.
SampleObjects ==
  {Box(PyInt("1"), PyStr("a")),
   Warehouse(PyList(<<Box(PyInt("1"), PyStr("a"))>>), PyList(<<PyStr("a")>>), PyBool(TRUE), None)}

(***************************************************************************)
(* The registry's life: registrations and overrides in any order, with     *)
(* codec calls between them.                                               *)
(***************************************************************************)
OverrideTargets == {<<"Box", "id">>, <<"Warehouse", "boxes">>}
JsonNames == {"box_id"}
XmlNames == {"."}
ArrayConfigs == {<<"NESTED", "item">>}
\* The serialization_types a class is registered with: the default, and for
\* Box also JSON alone.
RegistrationTypes(klass) ==
  IF klass = "Box" THEN {DEFAULT_SERIALIZATION_TYPES, {"JSON"}} ELSE {DEFAULT_SERIALIZATION_TYPES}

Init ==
  /\ klass_property_array_config = <<>>
  /\ klass_property_attributes = {}
  /\ klass_property_names = <<>>
  /\ klass_property_types = <<>>
  /\ klass_mappings = <<>>
  /\ klass_property_mappings = <<>>
  /\ injected = [c \in ClassNames |-> {}]
  /\ formatter = DefaultFormatter
  /\ call = NoCall
  /\ class_config = [c \in ClassNames |-> PlainClass]
  /\ n_overrides = 0
  /\ recorded_before = [c \in ClassNames |-> {}]
  /\ used = {}

\* _as_json(self): json.dumps(self, cls=DefaultJsonEncoder)
CallAsJson(self) ==
  /\ call' = [op |-> "as_json", cls |-> self.cls, self |-> self, out |-> _as_json(self),
               first |-> self.cls \notin used]
  /\ used' = used \cup {self.cls}
  /\ UNCHANGED <<registryVars, injected, formatter, class_config, n_overrides, recorded_before>>

\* _as_xml reading the metadata with klass_property_mappings.setdefault in
\* place of .get.
CallAsXml_SetDefault(self) ==
  /\ call' = [op |-> "as_xml", cls |-> self.cls, self |-> self, out |-> _as_xml(self, Unset),
               first |-> self.cls \notin used]
  /\ used' = used \cup {self.cls}
  /\ klass_property_mappings' =
       IF self.cls \in DOMAIN klass_property_mappings THEN klass_property_mappings
       ELSE (self.cls :> <<>>) @@ klass_property_mappings
  /\ UNCHANGED <<overrideVars, klass_mappings, injected, formatter, class_config, n_overrides,
                 recorded_before>>

\* _as_xml(self, as_string=False)
CallAsXml(self) ==
  /\ call' = [op |-> "as_xml", cls |-> self.cls, self |-> self, out |-> _as_xml(self, Unset),
               first |-> self.cls \notin used]
  /\ used' = used \cup {self.cls}
  /\ UNCHANGED <<registryVars, injected, formatter, class_config, n_overrides, recorded_before>>

\* The documents handed to the decoders while the registry is being filled.
SampleJson(cls) ==
  IF cls = "Box"
  THEN {PyDict(<< <<"box_id", PyInt("1")>>, <<"label", PyStr("a")>> >>),
        PyDict(<< <<"id", PyInt("1")>>, <<"label", PyStr("a")>> >>)}
  ELSE {PyDict(<< <<"tags", PyList(<<PyStr("a")>>)>> >>)}
SampleXml(cls) ==
  IF cls = "Box"
  THEN {append(Element("box", << <<"id", "1">> >>), WithText(Element("label", <<>>), "a"))}
  ELSE {append(Element("warehouse", <<>>), WithText(Element("tags", <<>>), "a"))}

\* klass.from_json(data): kwargs is what the call hands to the constructor.
CallFromJson(klass, data) ==
  /\ call' = [op |-> "from_json", cls |-> klass, data |-> data,
               kwargs |-> IF "from_json" \in injected[klass] THEN PyErr("TypeError")
                          ELSE IF HasMethod(klass, "from_json") THEN JsonKeywords(klass, data)
                          ELSE PyErr("AttributeError"),
               out |-> call_from_json(klass, data)]
  /\ UNCHANGED <<registryVars, injected, formatter, class_config, n_overrides, recorded_before,
                 used>>

\* klass.from_xml(data)
CallFromXml(klass, data) ==
  /\ call' = [op |-> "from_xml", cls |-> klass, data |-> data,
               out |-> call_from_xml(klass, data)]
  /\ UNCHANGED <<registryVars, injected, formatter, class_config, n_overrides, recorded_before,
                 used>>

Next ==
  \/ \E klass \in ClassNames : \E st \in RegistrationTypes(klass) : register_klass(klass, st)
  \/ \E q \in OverrideTargets, n \in JsonNames : register_custom_json_property_name(q, n)
  \/ \E q \in OverrideTargets, n \in XmlNames : register_custom_xml_property_name(q, n)
  \/ \E q \in OverrideTargets, a \in ArrayConfigs :
       register_xml_property_array_config(q, a[1], a[2])
  \/ \E q \in OverrideTargets : register_xml_property_attribute(q)
  \/ \E q \in OverrideTargets, ty \in CustomTypes : register_property_type_mapping(q, ty)
  \/ \E self \in SampleObjects : CallAsJson(self)
  \/ \E self \in SampleObjects : CallAsXml(self)
  \/ \E klass \in ClassNames : \E data \in SampleJson(klass) : CallFromJson(klass, data)
  \/ \E klass \in ClassNames : \E data \in SampleXml(klass) : CallFromXml(klass, data)

Spec == Init /\ [][Next]_vars

(***************************************************************************)
(* The encoders once registration is over: the overrides of one property   *)
(* were recorded (as the decorators of its getter do), then every class    *)
(* was registered (the class decorator), and the encoders are called.      *)
(***************************************************************************)
AllProperties == {<<c, p>> : c \in ClassNames, p \in {"id", "label", "boxes", "tags", "is_open", "kind", "is_new", "bits"}}
QualifiedProperties == {q \in AllProperties : q[2] \in PropertyMembers(q[1])}

\* The overrides that can be recorded for q, each as <<kind, property, value>>.
OverridesFor(q) ==
  {<<"json_name", q[2], "box_id">>, <<"xml_name", q[2], "item">>, <<"xml_name", q[2], ".">>,
   <<"xml_attribute", q[2], TRUE>>, <<"type_mapping", q[2], "Tagged">>,
   <<"xml_array_config", q[2], <<"FLAT", "item">> >>,
   <<"xml_array_config", q[2], <<"NESTED", "item">> >>}

\* At most MaxOverrides overrides of one property, no two of a kind.
Setups ==
  UNION {{[q |-> q, events |-> S] :
            S \in {T \in SUBSET OverridesFor(q) :
                     /\ Cardinality(T) <= MaxOverrides
                     /\ \A e1, e2 \in T : e1[1] = e2[1] => e1 = e2}} :
           q \in QualifiedProperties}

EventValue(setup, kind) == (CHOOSE e \in setup.events : e[1] = kind)[3]
HasEvent(setup, kind) == \E e \in setup.events : e[1] = kind

InitEncode ==
  \E setup \in Setups :
    /\ klass_property_array_config =
         IF HasEvent(setup, "xml_array_config")
         THEN (setup.q :> EventValue(setup, "xml_array_config")) ELSE <<>>
    /\ klass_property_attributes = IF HasEvent(setup, "xml_attribute") THEN {setup.q} ELSE {}
    /\ klass_property_names =
         IF HasEvent(setup, "json_name") \/ HasEvent(setup, "xml_name")
         THEN (setup.q :>
                 [JSON |-> IF HasEvent(setup, "json_name")
                           THEN EventValue(setup, "json_name") ELSE Unset,
                  XML |-> IF HasEvent(setup, "xml_name")
                          THEN EventValue(setup, "xml_name") ELSE Unset])
         ELSE <<>>
    /\ klass_property_types =
         IF HasEvent(setup, "type_mapping")
         THEN (setup.q :> EventValue(setup, "type_mapping")) ELSE <<>>
    /\ klass_mappings =
         [c \in ClassNames |-> SerializableClass(c, DEFAULT_SERIALIZATION_TYPES)]
    /\ klass_property_mappings =
         [c \in ClassNames |-> [name \in PropertyMembers(c) |-> NewProperty(c, name)]]
    /\ injected = [c \in ClassNames |-> InjectedMethods(DEFAULT_SERIALIZATION_TYPES)]
    /\ formatter \in Formatters
    /\ call = NoCall
    /\ class_config = [c \in ClassNames |-> PlainClass]
    /\ n_overrides = Cardinality(setup.events)
    /\ recorded_before = [c \in ClassNames |-> RecordedOverrides(c)]
    /\ used = {}

\* One encoder call on one instance; a behaviour makes a single call.
EncodeJson(self) == call = NoCall /\ CallAsJson(self)
EncodeXml(self) == call = NoCall /\ CallAsXml(self)

NextEncode ==
  \/ \E self \in Objects : EncodeJson(self)
  \/ \E self \in Objects : EncodeXml(self)

SpecEncode == InitEncode /\ [][NextEncode]_vars

(***************************************************************************)
(* The decoders and the class-based encoder.  The classes either derive    *)
(* from JsonSerializableObject and XmlSerializableObject and configure     *)
(* themselves through their class methods, or derive from neither; they    *)
(* are registered or not; one codec call is made.                          *)
(***************************************************************************)
Bases == {"JsonSerializableObject", "XmlSerializableObject"}

\* What get_property_key_mappings() of Box returns.
KeyMappings == {<<>>, << <<"id", "box_id">> >>, << <<"label", ".">> >>}
\* What get_array_property_configuration() of Warehouse holds for boxes, tags.
BoxesConfigs == {<<"NESTED", "box", "Box">>, <<"FLAT", "box", "Box">>, <<"FLAT", "tags", "Box">>}
TagsConfigs == {<<"NESTED", "tag", "str">>, <<"FLAT", "tag", "str">>, <<"FLAT", "tags", "str">>}

DerivedClasses(key_mappings, attributes, boxes_config, tags_config) ==
  [c \in ClassNames |->
     IF c = "Box"
     THEN ClassConfig(Bases, key_mappings, <<>>, <<>>, attributes, {"$schema"})
     ELSE ClassConfig(Bases, <<>>, << <<"kind", "Kind">> >>,
                      << <<"boxes", boxes_config>>, <<"tags", tags_config>> >>, {}, {})]

ClassConfigs ==
  {[c \in ClassNames |-> PlainClass]}
    \cup {DerivedClasses(km, attrs, bc, tc) :
            km \in KeyMappings, attrs \in {{}, {"id"}}, bc \in BoxesConfigs, tc \in TagsConfigs}

\* The JSON mappings decoded: at most two of these keys, each with its value.
JsonKeys == {"id", "label", "boxId", "colour", "x-label", "x-x-label", "$schema"}
JsonValueOf(k) ==
  CASE k \in {"id", "boxId"} -> PyInt("1")
    [] k = "x-x-label" -> PyStr("7")
    [] OTHER -> PyStr("a")
JsonInputs(cls) ==
  IF cls = "Box"
  THEN {PyDict(<<>>)}
         \cup {PyDict(<< <<k, JsonValueOf(k)>> >>) : k \in JsonKeys}
         \cup {PyDict(<< <<k[1], JsonValueOf(k[1])>>, <<k[2], JsonValueOf(k[2])>> >>) :
                 k \in {kk \in JsonKeys \X JsonKeys : kk[1] # kk[2]}}
  ELSE {PyDict(<< <<"boxes", PyList(<<PyDict(<< <<"label", PyStr("a")>> >>)>>)>>,
                  <<"kind", PyStr("a")>> >>),
        PyDict(<< <<"tags", PyList(<<PyStr("a")>>)>>, <<"colour", PyStr("a")>> >>)}

\* The XML elements decoded: at most two of these children under the root.
XmlTags == {"id", "label", "boxId", "colour", "__init__"}
XmlChild(tag) ==
  WithText(Element(tag, <<>>), CASE tag \in {"id", "boxId"} -> "1"
                                   [] tag = "label" -> "7"
                                   [] OTHER -> "a")
\* The elements found under the wrapper of an array: a box with a label, a
\* box without, a tag and an element that is neither.
XmlItems ==
  {append(Element("box", <<>>), XmlChild("label")), Element("box", <<>>),
   WithText(Element("tag", <<>>), "a"), Element("crate", <<>>)}
\* The items found directly under the root.
XmlFlatItems ==
  {append(Element("box", <<>>), XmlChild("label")), WithText(Element("tag", <<>>), "a"),
   WithText(Element("tag", <<>>), "7"), WithText(Element("tags", <<>>), "a"),
   append(Element("tags", <<>>), XmlChild("label"))}
XmlInputs(cls) ==
  IF cls = "Box"
  THEN {[t |-> "elem", tag |-> "box", attrib |-> attrib, text |-> text, children |-> children] :
          attrib \in {<<>>, << <<"id", "1">> >>},
          text \in {NoText, " a "},
          children \in {<<>>} \cup {<<XmlChild(a)>> : a \in XmlTags}
                        \cup {<<XmlChild(a), XmlChild(b)>> : a \in XmlTags, b \in XmlTags}}
  ELSE {append(Element("warehouse", <<>>), XmlChild("colour"))}
         \cup {append(Element("warehouse", <<>>),
                      [t |-> "elem", tag |-> tag, attrib |-> <<>>, text |-> NoText,
                       children |-> children]) :
                 tag \in {"boxes", "tags"},
                 children \in BoundedSeq(XmlItems, MaxItems)}
         \cup {[t |-> "elem", tag |-> "warehouse", attrib |-> <<>>, text |-> NoText,
                children |-> children] :
                 children \in BoundedSeq(XmlFlatItems, MaxItems)}

InitCodec ==
  \E registered \in BOOLEAN :
    /\ klass_property_array_config = <<>>
    /\ klass_property_attributes = {}
    /\ klass_property_names = <<>>
    /\ klass_property_types = <<>>
    /\ klass_mappings =
         IF registered
         THEN [c \in ClassNames |-> SerializableClass(c, DEFAULT_SERIALIZATION_TYPES)]
         ELSE <<>>
    /\ klass_property_mappings =
         IF registered
         THEN [c \in ClassNames |-> [name \in PropertyMembers(c) |-> NewProperty(c, name)]]
         ELSE <<>>
    /\ injected = [c \in ClassNames |->
                     IF registered THEN InjectedMethods(DEFAULT_SERIALIZATION_TYPES) ELSE {}]
    /\ formatter \in Formatters
    /\ call = NoCall
    /\ class_config \in ClassConfigs
    /\ n_overrides = 0
    /\ recorded_before = [c \in ClassNames |-> {}]
    /\ used = {}

codecVars == <<registryVars, injected, formatter, class_config, n_overrides, recorded_before, used>>

\* _from_json(self.__class__, json.loads(self.as_json()))
JsonRoundTrip(self) ==
  /\ call = NoCall
  /\ "as_json" \in injected[self.cls]
  /\ call' = [op |-> "json_round_trip", cls |-> self.cls, self |-> self,
               doc |-> _as_json(self), out |-> _from_json(self.cls, _as_json(self))]
  /\ UNCHANGED codecVars

\* _from_json(cls, data) for a class register_klass has set it on,
\* cls.from_json(data) for a class that inherits it.
DecodeJson(cls, data) ==
  /\ call = NoCall
  /\ HasMethod(cls, "from_json")
  /\ call' = [op |-> IF "from_json" \in injected[cls] THEN "_from_json" ELSE "from_json",
               cls |-> cls, data |-> data, kwargs |-> JsonKeywords(cls, data),
               out |-> IF "from_json" \in injected[cls]
                       THEN _from_json(cls, data) ELSE from_json(cls, data)]
  /\ UNCHANGED codecVars

\* self.__class__.from_xml(self.as_xml(as_string=False))
XmlRoundTrip(self) ==
  /\ call = NoCall
  /\ HasMethod(self.cls, "from_xml")
  /\ LET doc == call_as_xml(self, Unset)
     IN call' = [op |-> "xml_round_trip", cls |-> self.cls, self |-> self, doc |-> doc,
                 out |-> IF IsErr(doc) THEN doc ELSE from_xml(self.cls, doc)]
  /\ UNCHANGED codecVars

\* cls.from_xml(data)
DecodeXml(cls, data) ==
  /\ call = NoCall
  /\ HasMethod(cls, "from_xml")
  /\ call' = [op |-> "from_xml", cls |-> cls, data |-> data,
               kwargs |-> XmlKeywords(cls, data), out |-> from_xml(cls, data)]
  /\ UNCHANGED codecVars

\* self.as_xml(as_string=False) of a class that inherits as_xml.
EncodeInheritedXml(self) ==
  /\ call = NoCall
  /\ HasMethod(self.cls, "as_xml")
  /\ "as_xml" \notin injected[self.cls]
  /\ call' = [op |-> "XmlSerializableObject.as_xml", cls |-> self.cls, self |-> self,
               out |-> as_xml(self, Unset)]
  /\ UNCHANGED codecVars

NextCodec ==
  \/ \E self \in Objects : JsonRoundTrip(self)
  \/ \E cls \in ClassNames : \E data \in JsonInputs(cls) : DecodeJson(cls, data)
  \/ \E self \in Objects : XmlRoundTrip(self)
  \/ \E cls \in ClassNames : \E data \in XmlInputs(cls) : DecodeXml(cls, data)
  \/ \E self \in Objects : EncodeInheritedXml(self)

SpecCodec == InitCodec /\ [][NextCodec]_vars

(***************************************************************************)
(* Properties of the registry                                              *)
(***************************************************************************)
EncodeOps == {"as_json", "as_xml"}

\* C3: encoding an object whose type has no entry in the metadata registry
\* ends in an UnregisteredType error, never in a document built with empty
\* property metadata.
C3_UnregisteredTypeIsAnError ==
  (call.op \in EncodeOps /\ call.cls \notin DOMAIN klass_mappings)
    => (IsErr(call.out) /\ call.out.err = "UnregisteredType")

\* C4: a register_klass call for a type that is already registered leaves
\* klass_mappings and klass_property_mappings as they were.
C4_SecondRegistrationIsNoOp ==
  [][(call'.op = "register_klass" /\ call'.cls \in DOMAIN klass_mappings)
       => (klass_mappings' = klass_mappings
           /\ klass_property_mappings' = klass_property_mappings)]_vars

\* Whether the SerializableProperty of class c shows the override e.
InEffect(c, e) ==
  LET prop == klass_property_mappings[c][e[2]]
  IN CASE e[1] = "json_name" -> custom_name(prop, "JSON") = e[3]
       [] e[1] = "xml_name" -> custom_name(prop, "XML") = e[3]
       [] e[1] = "xml_attribute" -> prop.is_xml_attribute
       [] e[1] = "xml_array_config" -> prop.xml_array_config = e[3]
       [] e[1] = "type_mapping" -> prop.custom_type = e[3]

FirstEncodeOfRegistered ==
  call.op \in EncodeOps /\ call.first /\ call.cls \in DOMAIN klass_property_mappings

\* C7 as stated: every override recorded before the first encode call on an
\* instance of T is in effect during that call, recorded before or after
\* register_klass(T).
C7_EveryOverrideInEffect ==
  FirstEncodeOfRegistered => \A e \in RecordedOverrides(call.cls) : InEffect(call.cls, e)

\* C7 amended: every override that was recorded before register_klass(T) and
\* not replaced since by another of its kind for the same property is in
\* effect during the first encode call on an instance of T.
C7_OverridesBeforeRegistrationInEffect ==
  FirstEncodeOfRegistered => \A e \in recorded_before[call.cls] : InEffect(call.cls, e)

C7_Witness ==
  /\ FirstEncodeOfRegistered
  /\ recorded_before[call.cls] # {}
  /\ RecordedOverrides(call.cls) # recorded_before[call.cls]

\* C8: an override registration changes nothing that is observable through
\* a SerializableProperty register_klass has created.
C8_PropertyMetadataImmutable ==
  [][n_overrides' # n_overrides =>
       \A c \in DOMAIN klass_property_mappings :
         \A p \in DOMAIN klass_property_mappings[c] :
           Observable(klass_property_mappings[c][p])' = Observable(klass_property_mappings[c][p])]_vars

(***************************************************************************)
(* Properties of the encoders                                              *)
(***************************************************************************)
XmlEncoded == call.op = "as_xml" /\ call.cls \in DOMAIN klass_property_mappings

\* C9: in the output of _as_xml a property flagged is_xml_attribute is never
\* emitted as a child element or as element text, and a property not flagged
\* is never emitted as an attribute of the root: the attributes of the root
\* are named by the flagged properties, the children and the text do not
\* depend on the value of a flagged property, and the attributes do not
\* depend on the value of any other.
C9_AttributeVersusElement ==
  (XmlEncoded /\ ~IsErr(call.out)) =>
    /\ DictKeys(call.out.attrib) =
         {Encode(formatter, XmlName(klass_property_mappings[call.cls][p], p)) :
            p \in {q \in PropertyMembers(call.cls) :
                     klass_property_mappings[call.cls][q].is_xml_attribute}}
    /\ \A p \in PropertyMembers(call.cls) :
         \A v \in ValuesOf(p) :
           LET other == _as_xml([call.self EXCEPT !.f[p] = v], Unset)
           IN ~IsErr(other) =>
                IF klass_property_mappings[call.cls][p].is_xml_attribute
                THEN other.children = call.out.children /\ other.text = call.out.text
                ELSE other.attrib = call.out.attrib

C9_Witness ==
  /\ XmlEncoded
  /\ ~IsErr(call.out)
  /\ call.out.attrib # <<>>
  /\ call.out.children # <<>>
  /\ \E p \in PropertyMembers(call.cls) :
       klass_property_mappings[call.cls][p].is_xml_attribute /\ ~IsNone(call.self.f[p])

(***************************************************************************)
(* Properties of the decoders and of the array encoding                    *)
(***************************************************************************)
\* C1: for an instance of a class registered for JSON, with no custom scalar
\* codec and a formatter whose decode undoes its encode, _from_json applied
\* to the mapping _as_json produced returns an object equal to the instance
\* field by field.
C1_JsonRoundTrip == call.op = "json_round_trip" => call.out = call.self

\* C2: for an instance whose properties hold int, str or bool values, nested
\* objects and FLAT or NESTED collections (no enum), from_xml applied to the
\* element as_xml produced returns an object equal to the instance field by
\* field.
C2_XmlRoundTrip ==
  (call.op = "xml_round_trip"
     /\ \A p \in PropertyMembers(call.cls) : call.self.f[p].t # "enum")
    => call.out = call.self

\* A tag that stands for no property of cls: neither a declared property, a
\* custom XML name, a data-class mapping nor an array configuration.
ResolvesToNoProperty(cls, tag) ==
  LET cfg == class_config[cls]
      name == PropertyOfWireName(cfg, Decode(formatter, tag))
  IN /\ name \notin PropertyMembers(cls)
     /\ ~DictHas(cfg.array_configuration, name)
     /\ ~DictHas(cfg.data_class_mappings, name)
     /\ FlatConfigOfTag(cfg, tag) = <<>>

\* C5: from_xml of an element that has a child whose tag resolves to no
\* property of the target class (a tag that is the name of a method of the
\* class included) fails with the error that names the element and the
\* class, and the constructor of the class is not called.
C5_UnknownElementRejected ==
  (call.op = "from_xml"
     /\ \E i \in DOMAIN call.data.children :
          ResolvesToNoProperty(call.cls, call.data.children[i].tag))
    => (call.out = UnmappedElement /\ IsErr(call.kwargs))

\* A decoded key that stands for no property of cls.
NoKnownProperty(cls, name) ==
  LET cfg == class_config[cls]
  IN /\ name \notin PropertyMembers(cls)
     /\ name \notin DictValues(cfg.key_mappings)
     /\ ~DictHas(cfg.data_class_mappings, name)
     /\ ~DictHas(cfg.array_configuration, name)

\* C6: from_json never rejects a key that is not in the removal list and
\* resolves to no known property: the constructor is called, and the value
\* of the key is its keyword argument named decode(key).
C6_UnknownKeyReachesConstructor ==
  call.op \in {"_from_json", "from_json"} =>
    \A i \in DOMAIN call.data.kv :
      LET k == call.data.kv[i][1]
          name == Decode(formatter, k)
      IN (k \notin class_config[call.cls].json_key_removals /\ NoKnownProperty(call.cls, name))
           => /\ ~IsErr(call.kwargs)
              /\ DictHas(call.kwargs.kv, name)
              /\ DictGet(call.kwargs.kv, name) = call.data.kv[i][2]

TaggedChildren(e, tag) == {i \in DOMAIN e.children : e.children[i].tag = tag}

\* NESTED: one child of the root named wire, holding n children all tagged
\* c, and no item under the root.  FLAT: n children of the root tagged c and
\* no wrapper.
ArrayPlacement(root, wire, array_type, c, n) ==
  IF array_type = "NESTED"
  THEN /\ Cardinality(TaggedChildren(root, wire)) = 1
       /\ \A i \in TaggedChildren(root, wire) :
            /\ Len(root.children[i].children) = n
            /\ \A j \in DOMAIN root.children[i].children : root.children[i].children[j].tag = c
       /\ c # wire => TaggedChildren(root, c) = {}
  ELSE /\ Cardinality(TaggedChildren(root, c)) = n
       /\ c # wire => TaggedChildren(root, wire) = {}

\* The claim for _as_xml: the collection properties that have an array
\* config and are encoded as elements.
InjectedArrayEncoding ==
  (XmlEncoded /\ ~IsErr(call.out)) =>
    \A p \in PropertyMembers(call.cls) :
      LET prop_info == klass_property_mappings[call.cls][p]
          v == call.self.f[p]
      IN (/\ v.t = "list"
          /\ prop_info.xml_array_config # NoArrayConfig
          /\ ~prop_info.is_xml_attribute
          /\ prop_info.custom_type = Unset
          /\ XmlName(prop_info, p) # ".")
           => ArrayPlacement(call.out, Encode(formatter, XmlName(prop_info, p)),
                             prop_info.xml_array_config[1], prop_info.xml_array_config[2],
                             Len(v.items))

\* The claim for XmlSerializableObject.as_xml: the collection properties that
\* have an array configuration.
InheritedArrayEncoding ==
  (call.op = "XmlSerializableObject.as_xml" /\ ~IsErr(call.out)) =>
    \A p \in PropertyMembers(call.cls) :
      LET cfg == class_config[call.cls]
          v == call.self.f[p]
          config == DictGet(cfg.array_configuration, p)
      IN (v.t = "list" /\ DictHas(cfg.array_configuration, p))
           => ArrayPlacement(call.out, Encode(formatter, p), config[1], config[2], Len(v.items))

\* C10: as_xml encodes a collection of n items configured (NESTED, c) as one
\* wrapper child named by the wire name of the property that holds n
\* children all tagged c, and one configured (FLAT, c) as n children of the
\* root tagged c with no wrapper; for _as_xml and for the inherited as_xml.
C10_FlatVersusNested == InjectedArrayEncoding /\ InheritedArrayEncoding

(***************************************************************************)
(* Properties of the XML encoders                                          *)
(***************************************************************************)
\* The properties of the class of the encoded object whose XML custom name
\* is '.'.
SentinelProperties ==
  {p \in PropertyMembers(call.cls) : XmlName(klass_property_mappings[call.cls][p], p) = "."}

\* C11: in the output of _as_xml a property whose XML custom name is '.'
\* produces no child element (the children are those of the same object
\* with the property set to None), and when its value is not None the text
\* of the root is str(value).
C11_SentinelText ==
  (XmlEncoded /\ ~IsErr(call.out)) =>
    \A p \in SentinelProperties :
      /\ call.out.children = _as_xml([call.self EXCEPT !.f[p] = None], Unset).children
      /\ ~IsNone(call.self.f[p]) => call.out.text = str(call.self.f[p])

\* C11 for the properties that are not XML attributes.
SentinelTextOfElements ==
  (XmlEncoded /\ ~IsErr(call.out)) =>
    \A p \in SentinelProperties :
      ~klass_property_mappings[call.cls][p].is_xml_attribute =>
        /\ call.out.children = _as_xml([call.self EXCEPT !.f[p] = None], Unset).children
        /\ ~IsNone(call.self.f[p]) => call.out.text = str(call.self.f[p])

(***************************************************************************)
(* Properties of XmlSerializableObject.from_xml on arrays                  *)
(***************************************************************************)
\* What an item element is decoded into for the item class of an array: by
\* from_xml of the class when it has one, else from the text of the element.
DecodedItem(klass, e) ==
  IF HasMethod(klass, "from_xml") THEN from_xml(klass, e) ELSE Construct(klass, TextOf(e))

\* The property a child element of an element decoded for cls stands for.
PropertyOfChild(cls, e) == PropertyOfWireName(class_config[cls], Decode(formatter, e.tag))

\* from_xml was called on an element whose only child is the wrapper of a
\* property that has a NESTED array configuration.
NestedWrapperDecoded ==
  /\ call.op = "from_xml"
  /\ call.data.attrib = <<>>
  /\ Len(call.data.children) = 1
  /\ DictHas(class_config[call.cls].array_configuration,
             PropertyOfChild(call.cls, call.data.children[1]))
  /\ DictGet(class_config[call.cls].array_configuration,
             PropertyOfChild(call.cls, call.data.children[1]))[1] = "NESTED"

\* C12: when from_xml meets the wrapper of a NESTED array with child tag c,
\* it fails with the ValueError for an unexpected element at the first
\* grandchild whose tag is not c (those before it having been decoded) and
\* the constructor is not called; when every grandchild is tagged c the
\* property receives the decoded grandchildren, one per grandchild, in
\* document order.
C12_NestedArrayDecode ==
  NestedWrapperDecoded =>
    LET wrapper == call.data.children[1]
        name == PropertyOfChild(call.cls, wrapper)
        config == DictGet(class_config[call.cls].array_configuration, name)
        items == [j \in DOMAIN wrapper.children |-> DecodedItem(config[3], wrapper.children[j])]
        bad == {j \in DOMAIN wrapper.children : wrapper.children[j].tag # config[2]}
    IN IF bad # {}
       THEN (\A j \in DOMAIN wrapper.children : (\A b \in bad : j < b) => ~IsErr(items[j]))
              => call.kwargs = UnexpectedNestedElement
       ELSE (\A j \in DOMAIN wrapper.children : ~IsErr(items[j]))
              => /\ ~IsErr(call.kwargs)
                 /\ DictHas(call.kwargs.kv, name)
                 /\ DictGet(call.kwargs.kv, name) = PyList(items)

\* C12 for the arrays whose item class has a from_xml.
NestedArrayDecodeOfObjects ==
  (NestedWrapperDecoded
     /\ HasMethod(DictGet(class_config[call.cls].array_configuration,
                          PropertyOfChild(call.cls, call.data.children[1]))[3], "from_xml"))
    => C12_NestedArrayDecode

JsonEncoded == call.op = "as_json" /\ call.cls \in DOMAIN klass_property_mappings

\* The key the JSON output is to carry for registered property p: the custom
\* JSON name as given, else the identifier encoded by the formatter once.
JsonWireName(cls, p) ==
  LET name == custom_name(klass_property_mappings[cls][p], "JSON")
  IN IF name # Unset THEN name ELSE Encode(formatter, p)

\* C13: in the output of as_json, every registered property whose value is
\* not None appears under its custom JSON name if it has one, taken as
\* given, and otherwise under its identifier encoded by the formatter once.
C13_JsonWireName ==
  (JsonEncoded /\ ~IsErr(call.out)) =>
    \A p \in DOMAIN klass_property_mappings[call.cls] :
      ~IsNone(call.self.f[p]) => DictHas(call.out.kv, JsonWireName(call.cls, p))

\* C13 under a formatter that leaves its own output, and the custom names,
\* as they are.
JsonWireNameIdempotent ==
  (\A q \in QualifiedProperties \cup {<<"Box", "box_id">>} :
      Encode(formatter, Encode(formatter, q[2])) = Encode(formatter, q[2]))
    /\ Encode(formatter, "box_id") = "box_id"
    => C13_JsonWireName

\* A call of the from_json register_klass has set on a registered class.
InjectedJsonDecoded ==
  /\ call.op = "from_json"
  /\ call.cls \in DOMAIN klass_property_mappings
  /\ "from_json" \in injected[call.cls]

\* The properties of the decoded class whose recorded custom JSON name is a
\* key of the decoded mapping.
NamedInData ==
  {p \in DOMAIN klass_property_mappings[call.cls] :
     /\ custom_name(klass_property_mappings[call.cls][p], "JSON") # Unset
     /\ DictHas(call.data.kv, custom_name(klass_property_mappings[call.cls][p], "JSON"))}

\* C14: the from_json set on a registered class hands the value found under
\* the recorded custom JSON name of a property to the constructor under the
\* identifier of that property.
C14_JsonDecodeHonoursCustomNames ==
  InjectedJsonDecoded =>
    \A p \in NamedInData :
      /\ ~IsErr(call.kwargs)
      /\ DictHas(call.kwargs.kv, p)
      /\ DictGet(call.kwargs.kv, p)
           = DictGet(call.data.kv, custom_name(klass_property_mappings[call.cls][p], "JSON"))

CodecOps == {"as_json", "from_json", "as_xml", "from_xml"}

\* C15: no call of as_json, from_json, as_xml or from_xml, whatever calls and
\* registrations came before it, changes klass_mappings,
\* klass_property_mappings or one of the four stores of recorded overrides.
C15_CodecCallsOnlyReadRegistry ==
  [][call'.op \in CodecOps => UNCHANGED registryVars]_vars

\* A decoder call after instances of both classes were encoded, the registry
\* holding classes and recorded custom names.
C15_Witness ==
  /\ call.op = "from_json"
  /\ used = ClassNames
  /\ klass_mappings # <<>>
  /\ klass_property_names # <<>>

\* The registered properties of the encoded object that _as_xml emits as
\* elements: not None, not an XML attribute, not named '.'.
ElementProperties ==
  {p \in DOMAIN klass_property_mappings[call.cls] :
     /\ ~IsNone(call.self.f[p])
     /\ ~klass_property_mappings[call.cls][p].is_xml_attribute
     /\ XmlName(klass_property_mappings[call.cls][p], p) # "."}

XmlWireName(cls, p) == Encode(formatter, XmlName(klass_property_mappings[cls][p], p))

\* root has one child tagged wire, and it is child.
SingleChild(root, wire, child) ==
  /\ Cardinality(TaggedChildren(root, wire)) = 1
  /\ \A i \in TaggedChildren(root, wire) : root.children[i] = child

\* What the document holds for property p when the branch is chosen by the
\* precedence custom type, array, enum, nested object, primitive.
DispatchedByPrecedence(root, cls, p, v) ==
  LET prop_info == klass_property_mappings[cls][p]
      wire == XmlWireName(cls, p)
  IN IF prop_info.custom_type # Unset
     THEN SingleChild(root, wire,
                      WithText(Element(wire, <<>>), str(Serialize(prop_info.custom_type, v))))
     ELSE IF is_array(prop_info)
     THEN IF prop_info.xml_array_config # NoArrayConfig
          THEN ArrayPlacement(root, wire, prop_info.xml_array_config[1],
                              prop_info.xml_array_config[2], Len(v.items))
          ELSE ArrayPlacement(root, wire, "FLAT", wire, Len(v.items))
     ELSE IF is_enum(prop_info)
     THEN SingleChild(root, wire, WithText(Element(wire, <<>>), str(EnumValue(v))))
     ELSE IF ~is_primitive_type(prop_info)
     THEN SingleChild(root, wire, _as_xml(v, wire))
     ELSE \E text \in {str(v), lower(str(v))} :
            SingleChild(root, wire, WithText(Element(wire, <<>>), text))

\* C16: for every registered property of the encoded object that is not
\* None, not an XML attribute and not named '.', _as_xml produces the output
\* of exactly one branch, chosen by the precedence custom type, array, enum,
\* nested object, primitive; a property with a custom type is one child
\* holding custom_type.serialize(value), whatever its declared type.
C16_DispatchPrecedence ==
  XmlEncoded =>
    \A p \in ElementProperties :
      /\ ~IsErr(call.out)
      /\ DispatchedByPrecedence(call.out, call.cls, p, call.self.f[p])

\* C16 for the calls that return a document.
DispatchPrecedenceOfDocuments ==
  (XmlEncoded /\ ~IsErr(call.out)) =>
    \A p \in ElementProperties :
      DispatchedByPrecedence(call.out, call.cls, p, call.self.f[p])

\* A document that holds a collection, an enum member or a nested object
\* through a custom type.
CustomTypeOverDeclaredType ==
  /\ XmlEncoded
  /\ ~IsErr(call.out)
  /\ \E p \in ElementProperties :
       /\ klass_property_mappings[call.cls][p].custom_type # Unset
       /\ \/ is_array(klass_property_mappings[call.cls][p])
          \/ is_enum(klass_property_mappings[call.cls][p])

\* The texts of the children of e tagged tag, in document order.
TextsTagged(e, tag) ==
  LET tagged == SelectSeq(e.children, LAMBDA c : c.tag = tag)
  IN [i \in DOMAIN tagged |-> tagged[i].text]

\* 'true' for True, 'false' for False.
BooleanText(v) == IF v = PyBool(TRUE) THEN "true" ELSE "false"

\* The properties declared bool, Optional[bool] or a collection of bool that
\* _as_xml emits as elements through no custom type.
BooleanProperties ==
  {p \in ElementProperties :
     /\ concrete_type(klass_property_mappings[call.cls][p]) = "bool"
     /\ klass_property_mappings[call.cls][p].custom_type = Unset}

\* C17: in a document _as_xml returns, a property declared bool or
\* Optional[bool] is an element with the text 'true' or 'false', and a
\* collection of bool has one item element per item with the text 'true' or
\* 'false'; never 'True' or 'False'.
C17_BooleanRendering ==
  (XmlEncoded /\ ~IsErr(call.out)) =>
    \A p \in BooleanProperties :
      LET prop_info == klass_property_mappings[call.cls][p]
          v == call.self.f[p]
          wire == XmlWireName(call.cls, p)
          config == prop_info.xml_array_config
      IN IF v.t = "list"
         THEN LET parent == IF config # NoArrayConfig /\ config[1] = "NESTED"
                            THEN call.out.children[CHOOSE i \in TaggedChildren(call.out, wire) : TRUE]
                            ELSE call.out
                  c == IF config # NoArrayConfig THEN config[2] ELSE wire
              IN TextsTagged(parent, c) = [i \in DOMAIN v.items |-> BooleanText(v.items[i])]
         ELSE TextsTagged(call.out, wire) = <<BooleanText(v)>>

\* C17 without the properties declared Optional[bool].
BooleanRenderingOfBoolAndCollections ==
  (XmlEncoded /\ \E p \in BooleanProperties :
                   /\ ~is_array(klass_property_mappings[call.cls][p])
                   /\ is_optional(klass_property_mappings[call.cls][p]))
    \/ C17_BooleanRendering

\* A document with a collection of bool in it.
BooleanCollectionEncoded ==
  /\ XmlEncoded
  /\ ~IsErr(call.out)
  /\ \E p \in BooleanProperties : call.self.f[p].t = "list" /\ Len(call.self.f[p].items) = 2

\* The collection properties of the encoded object that have no array config
\* recorded and that _as_xml emits as elements through no custom type.
UnconfiguredArrays ==
  {p \in ElementProperties :
     /\ is_array(klass_property_mappings[call.cls][p])
     /\ klass_property_mappings[call.cls][p].custom_type = Unset
     /\ klass_property_mappings[call.cls][p].xml_array_config = NoArrayConfig}

\* C18: _as_xml encodes a collection property that has no array config
\* recorded as FLAT under its wire name: the call returns a document with one
\* child of the root per item, tagged with the wire name of the property,
\* and no wrapper.
C18_DefaultArrayPlacement ==
  XmlEncoded =>
    \A p \in UnconfiguredArrays :
      /\ ~IsErr(call.out)
      /\ ArrayPlacement(call.out, XmlWireName(call.cls, p), "FLAT", XmlWireName(call.cls, p),
                        Len(call.self.f[p].items))

\* The same for XmlSerializableObject.as_xml and the collections that
\* get_array_property_configuration does not name.
InheritedDefaultArrayPlacement ==
  (call.op = "XmlSerializableObject.as_xml" /\ ~IsErr(call.out)) =>
    \A p \in PropertyMembers(call.cls) :
      (call.self.f[p].t = "list" /\ ~DictHas(class_config[call.cls].array_configuration, p))
        => ArrayPlacement(call.out, Encode(formatter, p), "FLAT", Encode(formatter, p),
                          Len(call.self.f[p].items))

\* The properties of cls whose array configuration is FLAT.
FlatProperties(cls) ==
  {p \in DictKeys(class_config[cls].array_configuration) :
     DictGet(class_config[cls].array_configuration, p)[1] = "FLAT"}

\* A document from_xml is given whose children are all items of FLAT arrays
\* of the class, no two of which share their child tag, and each of which
\* its item class decodes.
FlatDocumentDecoded ==
  /\ call.op = "from_xml"
  /\ call.data.attrib = <<>>
  /\ call.data.text = NoText
  /\ call.data.children # <<>>
  /\ LET ac == class_config[call.cls].array_configuration
     IN /\ \A p, q \in FlatProperties(call.cls) :
             DictGet(ac, p)[2] = DictGet(ac, q)[2] => p = q
        /\ \A i \in DOMAIN call.data.children :
             \E p \in FlatProperties(call.cls) :
               /\ call.data.children[i].tag = DictGet(ac, p)[2]
               /\ ~IsErr(DecodedItem(DictGet(ac, p)[3], call.data.children[i]))

\* C19: from a document of FLAT items from_xml hands the constructor, for
\* every FLAT property p with child tag c of which the document has items,
\* the decoded children tagged c in document order, whatever c is, the name
\* of p or of another array property included; it does not fail.
C19_FlatArrayDecode ==
  FlatDocumentDecoded =>
    /\ ~IsErr(call.kwargs)
    /\ \A p \in FlatProperties(call.cls) :
         LET config == DictGet(class_config[call.cls].array_configuration, p)
             tagged == SelectSeq(call.data.children, LAMBDA e : e.tag = config[2])
         IN tagged # <<>> =>
              /\ DictHas(call.kwargs.kv, p)
              /\ DictGet(call.kwargs.kv, p)
                   = PyList([i \in DOMAIN tagged |-> DecodedItem(config[3], tagged[i])])

\* C19 for the child tags that are the name of no array property.
FlatArrayDecodeOfOtherTags ==
  (FlatDocumentDecoded
     /\ \A p \in FlatProperties(call.cls) :
          ~DictHas(class_config[call.cls].array_configuration,
                   PropertyOfWireName(class_config[call.cls],
                     Decode(formatter,
                            DictGet(class_config[call.cls].array_configuration, p)[2]))))
    => C19_FlatArrayDecode

\* Items of two FLAT arrays, interleaved, decoded in one document.
TwoFlatArraysDecoded ==
  /\ FlatDocumentDecoded
  /\ ~IsErr(call.kwargs)
  /\ Len(call.kwargs.kv) = 2

\* The identifier an input key stands for: the property whose custom name the
\* decoded key is, or the decoded key.
ResolvedJsonName(cls, k) ==
  LET cfg == class_config[cls]
      decoded_k == Decode(formatter, k)
  IN IF decoded_k \in DictValues(cfg.key_mappings) /\ KeyOfValue(cfg.key_mappings, decoded_k) # "."
     THEN KeyOfValue(cfg.key_mappings, decoded_k)
     ELSE decoded_k

\* A mapping decoded by a class that has the class methods of the decoder,
\* with no key in the removal list and keys that the formatter decodes to,
\* and that resolve to, pairwise distinct identifiers.
DistinctKeysDecoded ==
  /\ call.op \in {"_from_json", "from_json"}
  /\ HasClassMethod(call.cls, "get_json_key_removals")
  /\ \A i \in DOMAIN call.data.kv :
       call.data.kv[i][1] \notin class_config[call.cls].json_key_removals
  /\ \A i, j \in DOMAIN call.data.kv :
       i # j => /\ Decode(formatter, call.data.kv[i][1]) # Decode(formatter, call.data.kv[j][1])
                /\ ResolvedJsonName(call.cls, call.data.kv[i][1])
                     # ResolvedJsonName(call.cls, call.data.kv[j][1])

\* C20: the mapping from_json calls the constructor with has one entry per
\* input key, under the identifier the key resolves to; a value that no
\* data-class mapping or array configuration converts is the input value.
C20_NoValueLostInKeyRewriting ==
  DistinctKeysDecoded =>
    /\ ~IsErr(call.kwargs)
    /\ Len(call.kwargs.kv) = Len(call.data.kv)
    /\ \A i \in DOMAIN call.data.kv :
         LET name == ResolvedJsonName(call.cls, call.data.kv[i][1])
             cfg == class_config[call.cls]
         IN /\ DictHas(call.kwargs.kv, name)
            /\ (~DictHas(cfg.data_class_mappings, name) /\ ~DictHas(cfg.array_configuration, name))
                 => DictGet(call.kwargs.kv, name) = call.data.kv[i][2]

\* C20 for the mappings in which the decoded name of no key is another key
\* and whose values are all decoded.
NoValueLostWithoutKeyOverlap ==
  (DistinctKeysDecoded
     /\ ~IsErr(call.kwargs)
     /\ \A i, j \in DOMAIN call.data.kv :
          i # j => /\ Decode(formatter, call.data.kv[i][1]) # call.data.kv[j][1]
                   /\ ResolvedJsonName(call.cls, call.data.kv[i][1]) # call.data.kv[j][1])
    => C20_NoValueLostInKeyRewriting

\* Two keys rewritten to two identifiers in one call.
TwoKeysRewritten ==
  /\ DistinctKeysDecoded
  /\ ~IsErr(call.kwargs)
  /\ Len(call.data.kv) = 2
  /\ \A i \in DOMAIN call.data.kv :
       ResolvedJsonName(call.cls, call.data.kv[i][1]) # call.data.kv[i][1]

\* The registered properties of the encoded object whose value is None.
NullProperties ==
  {p \in DOMAIN klass_property_mappings[call.cls] : IsNone(call.self.f[p])}

\* Nothing of the document e stands for a property with wire name wire: no
\* attribute and no child of that name and, for the name '.', no text.
AbsentFromElement(e, name, wire) ==
  /\ ~DictHas(e.attrib, wire)
  /\ TaggedChildren(e, wire) = {}
  /\ name = "." => e.text = NoText

\* C21: in a document _as_xml returns, a property whose value is None has no
\* child element, no element text and no XML attribute, flagged as an XML
\* attribute or not.
C21_NullValuesAbsent ==
  (XmlEncoded /\ ~IsErr(call.out)) =>
    \A p \in NullProperties :
      AbsentFromElement(call.out, XmlName(klass_property_mappings[call.cls][p], p),
                        XmlWireName(call.cls, p))

\* C21 for the properties that are not flagged as XML attributes.
NullElementsAbsent ==
  (XmlEncoded /\ ~IsErr(call.out)) =>
    \A p \in NullProperties :
      ~klass_property_mappings[call.cls][p].is_xml_attribute
        => AbsentFromElement(call.out, XmlName(klass_property_mappings[call.cls][p], p),
                             XmlWireName(call.cls, p))

\* The same for XmlSerializableObject.as_xml and the properties its class
\* names in properties_as_attributes.
InheritedNullAttributesAbsent ==
  (call.op = "XmlSerializableObject.as_xml" /\ ~IsErr(call.out)) =>
    \A p \in class_config[call.cls].attributes :
      IsNone(call.self.f[p])
        => ~DictHas(call.out.attrib, Encode(formatter, MappedKey(class_config[call.cls], p)))

\* A document of an object with a None property that is no XML attribute
\* next to one that is set.
NullElementEncoded ==
  /\ XmlEncoded
  /\ ~IsErr(call.out)
  /\ call.out.children # <<>>
  /\ \E p \in NullProperties : ~klass_property_mappings[call.cls][p].is_xml_attribute

====
